---- MODULE Spec2Model ----
(***************************************************************************)
(* Model of em::Matrix4<int> (include/util/ExtendedMath.h) and of the      *)
(* Button widget (src/gui/Button.cpp).                                     *)
(*                                                                         *)
(* A matrix is a function [0..3 -> [0..3 -> Int]], so that m[i][j] reads   *)
(* as in the source.  Entries stay far below 2^31 within the bounds of the *)
(* model, so int arithmetic does not wrap.                                 *)
(*                                                                         *)
(* Three specifications share the variables:                               *)
(*   Spec         one call expression on a constructed matrix              *)
(*   SpecInverse  operator-() on a larger family of matrices               *)
(*   SpecButton   the Button state machine under mouse input               *)
(***************************************************************************)
EXTENDS Integers, FiniteSets, Sequences, TLC

VARIABLES
    M,            \* the Matrix4<int> object the call is made on (*this)
    R,            \* the Matrix4 argument of the last call
    V,            \* the sf::Vector3 argument of the last call
    flags,        \* the (xAxis, yAxis, zAxis) arguments of the last mirror
    pre,          \* the value of M before the last call
    mres,         \* matrix returned by the last call
    mres2,        \* second matrix returned (expressions with two products)
    vres,         \* vector returned by the last call
    vres2,        \* second vector returned
    last,         \* the last call made
    m_state,      \* Button::m_state
    fillColor,    \* m_shape's fill colour
    m_shape,      \* m_shape's global bounds
    mousePos,     \* the mouse position handed to update
    leftPressed,  \* sf::Mouse::isButtonPressed(sf::Mouse::Left)
    prevState     \* m_state before the last step

vars == <<M, R, V, flags, pre, mres, mres2, vres, vres2, last,
          m_state, fillColor, m_shape, mousePos, leftPressed, prevState>>

matrixVars == <<M, R, V, flags, pre, mres, mres2, vres, vres2>>
buttonVars == <<m_state, fillColor, m_shape, mousePos, leftPressed, prevState>>

\* Largest magnitude of a matrix entry or vector coordinate given as input.
MaxVal == 1
\* Mouse positions range over 0..MaxCoord in both axes.
MaxCoord == 3
\* Button sizes range over 1..MaxSize in both axes.
MaxSize == 2

Idx == 0..3
Vals == (-MaxVal)..MaxVal

Abs(a) == IF a < 0 THEN -a ELSE a
Sgn(a) == IF a < 0 THEN -1 ELSE IF a > 0 THEN 1 ELSE 0

(***************************************************************************)
(* Matrix4<T>, T = int                                                     *)
(***************************************************************************)

\* Matrix4(a00, ..., a33): the constructor setting every element.
Matrix4New(a00, a01, a02, a03, a10, a11, a12, a13, a20, a21, a22, a23, a30, a31, a32, a33) ==
    LET s == <<a00, a01, a02, a03, a10, a11, a12, a13,
               a20, a21, a22, a23, a30, a31, a32, a33>>
    IN  [i \in Idx |-> [j \in Idx |-> s[4 * i + j + 1]]]

\* A default constructor that forgets the last diagonal element.
Matrix4NoLastOne ==
    Matrix4New(1, 0, 0, 0,
               0, 1, 0, 0,
               0, 0, 1, 0,
               0, 0, 0, 0)

\* Matrix4(): the default constructor.
Matrix4 ==
    Matrix4New(1, 0, 0, 0,
               0, 1, 0, 0,
               0, 0, 1, 0,
               0, 0, 0, 1)

\* sf::Vector3<T>(x, y, z)
Vector3(x, y, z) == [x |-> x, y |-> y, z |-> z]

\* operator* with one index of result[1][2] transposed.
OpMulIndexSlip(left, right) ==
    Matrix4New(
        left[0][0]*right[0][0] + left[0][1]*right[1][0] + left[0][2]*right[2][0] + left[0][3]*right[3][0],
        left[0][0]*right[0][1] + left[0][1]*right[1][1] + left[0][2]*right[2][1] + left[0][3]*right[3][1],
        left[0][0]*right[0][2] + left[0][1]*right[1][2] + left[0][2]*right[2][2] + left[0][3]*right[3][2],
        left[0][0]*right[0][3] + left[0][1]*right[1][3] + left[0][2]*right[2][3] + left[0][3]*right[3][3],
        left[1][0]*right[0][0] + left[1][1]*right[1][0] + left[1][2]*right[2][0] + left[1][3]*right[3][0],
        left[1][0]*right[0][1] + left[1][1]*right[1][1] + left[1][2]*right[2][1] + left[1][3]*right[3][1],
        left[1][0]*right[0][2] + left[1][1]*right[1][2] + left[1][2]*right[2][2] + left[1][3]*right[2][3],
        left[1][0]*right[0][3] + left[1][1]*right[1][3] + left[1][2]*right[2][3] + left[1][3]*right[3][3],
        left[2][0]*right[0][0] + left[2][1]*right[1][0] + left[2][2]*right[2][0] + left[2][3]*right[3][0],
        left[2][0]*right[0][1] + left[2][1]*right[1][1] + left[2][2]*right[2][1] + left[2][3]*right[3][1],
        left[2][0]*right[0][2] + left[2][1]*right[1][2] + left[2][2]*right[2][2] + left[2][3]*right[3][2],
        left[2][0]*right[0][3] + left[2][1]*right[1][3] + left[2][2]*right[2][3] + left[2][3]*right[3][3],
        left[3][0]*right[0][0] + left[3][1]*right[1][0] + left[3][2]*right[2][0] + left[3][3]*right[3][0],
        left[3][0]*right[0][1] + left[3][1]*right[1][1] + left[3][2]*right[2][1] + left[3][3]*right[3][1],
        left[3][0]*right[0][2] + left[3][1]*right[1][2] + left[3][2]*right[2][2] + left[3][3]*right[3][2],
        left[3][0]*right[0][3] + left[3][1]*right[1][3] + left[3][2]*right[2][3] + left[3][3]*right[3][3])

\* operator*(const Matrix4 &right) const: the sixteen assignments of the source.
OpMul(left, right) ==
    Matrix4New(
        left[0][0]*right[0][0] + left[0][1]*right[1][0] + left[0][2]*right[2][0] + left[0][3]*right[3][0],
        left[0][0]*right[0][1] + left[0][1]*right[1][1] + left[0][2]*right[2][1] + left[0][3]*right[3][1],
        left[0][0]*right[0][2] + left[0][1]*right[1][2] + left[0][2]*right[2][2] + left[0][3]*right[3][2],
        left[0][0]*right[0][3] + left[0][1]*right[1][3] + left[0][2]*right[2][3] + left[0][3]*right[3][3],
        left[1][0]*right[0][0] + left[1][1]*right[1][0] + left[1][2]*right[2][0] + left[1][3]*right[3][0],
        left[1][0]*right[0][1] + left[1][1]*right[1][1] + left[1][2]*right[2][1] + left[1][3]*right[3][1],
        left[1][0]*right[0][2] + left[1][1]*right[1][2] + left[1][2]*right[2][2] + left[1][3]*right[3][2],
        left[1][0]*right[0][3] + left[1][1]*right[1][3] + left[1][2]*right[2][3] + left[1][3]*right[3][3],
        left[2][0]*right[0][0] + left[2][1]*right[1][0] + left[2][2]*right[2][0] + left[2][3]*right[3][0],
        left[2][0]*right[0][1] + left[2][1]*right[1][1] + left[2][2]*right[2][1] + left[2][3]*right[3][1],
        left[2][0]*right[0][2] + left[2][1]*right[1][2] + left[2][2]*right[2][2] + left[2][3]*right[3][2],
        left[2][0]*right[0][3] + left[2][1]*right[1][3] + left[2][2]*right[2][3] + left[2][3]*right[3][3],
        left[3][0]*right[0][0] + left[3][1]*right[1][0] + left[3][2]*right[2][0] + left[3][3]*right[3][0],
        left[3][0]*right[0][1] + left[3][1]*right[1][1] + left[3][2]*right[2][1] + left[3][3]*right[3][1],
        left[3][0]*right[0][2] + left[3][1]*right[1][2] + left[3][2]*right[2][2] + left[3][3]*right[3][2],
        left[3][0]*right[0][3] + left[3][1]*right[1][3] + left[3][2]*right[2][3] + left[3][3]*right[3][3])

\* operator*=(const Matrix4 &right)
OpMulAssign(left, right) == OpMul(left, right)

\* operator*(Vector3) with the homogeneous coordinate left at 0.
OpMulVecNoW(m, right) ==
    LET arr == <<right.x, right.y, right.z, 0>>
        res == [i \in Idx |->
                   m[i][0] * arr[1] + m[i][1] * arr[2] + m[i][2] * arr[3] + m[i][3] * arr[4]]
    IN  Vector3(res[0], res[1], res[2])

\* operator*(const sf::Vector3<T> &right) const: arr = {x, y, z, 1}, res[i] is the
\* sum over j of m_matrix[i][j] * arr[j], and the first three are returned.
OpMulVec(m, right) ==
    LET arr == <<right.x, right.y, right.z, 1>>
        res == [i \in Idx |->
                   m[i][0] * arr[1] + m[i][1] * arr[2] + m[i][2] * arr[3] + m[i][3] * arr[4]]
    IN  Vector3(res[0], res[1], res[2])

\* translate that adds translation.z to the wrong element.
translateZSlip(m, translation) ==
    [m EXCEPT ![0][3] = @ + translation.x,
              ![1][3] = @ + translation.y,
              ![3][2] = @ + translation.z]

\* translate(const sf::Vector3<T> &translation)
translate(m, translation) ==
    [m EXCEPT ![0][3] = @ + translation.x,
              ![1][3] = @ + translation.y,
              ![2][3] = @ + translation.z]

\* scale(const sf::Vector3<T> &scale)
scale(m, s) ==
    OpMulAssign(m, Matrix4New(s.x, 0, 0, 0,
                              0, s.y, 0, 0,
                              0, 0, s.z, 0,
                              0, 0, 0, 1))

\* mirror whose zAxis branch writes the last diagonal element.
mirrorZSlip(m, xAxis, yAxis, zAxis) ==
    LET m0 == Matrix4
        m1 == IF xAxis THEN [m0 EXCEPT ![0][0] = -1] ELSE m0
        m2 == IF yAxis THEN [m1 EXCEPT ![1][1] = -1] ELSE m1
        mirrorMatrix == IF zAxis THEN [m2 EXCEPT ![3][3] = -1] ELSE m2
    IN  OpMulAssign(m, mirrorMatrix)

\* mirror(const bool xAxis, const bool yAxis, const bool zAxis)
mirror(m, xAxis, yAxis, zAxis) ==
    LET m0 == Matrix4
        m1 == IF xAxis THEN [m0 EXCEPT ![0][0] = -1] ELSE m0
        m2 == IF yAxis THEN [m1 EXCEPT ![1][1] = -1] ELSE m1
        mirrorMatrix == IF zAxis THEN [m2 EXCEPT ![2][2] = -1] ELSE m2
    IN  OpMulAssign(m, mirrorMatrix)

\* toPosition() const
toPosition(m) == Vector3(m[0][3], m[1][3], m[2][3])

(***************************************************************************)
(* operator-() const: the inverse by cofactors                             *)
(***************************************************************************)

\* result[0][0] of operator-(), before the division by the determinant.
Cofactor00(m) ==
      m[1][1] * m[2][2] * m[3][3]
    - m[1][1] * m[2][3] * m[3][2]
    - m[2][1] * m[1][2] * m[3][3]
    + m[2][1] * m[1][3] * m[3][2]
    + m[3][1] * m[1][2] * m[2][3]
    - m[3][1] * m[1][3] * m[2][2]

\* result[1][0] of operator-(), before the division by the determinant.
Cofactor10(m) ==
      (-1) * m[1][0] * m[2][2] * m[3][3]
    + m[1][0] * m[2][3] * m[3][2]
    + m[2][0] * m[1][2] * m[3][3]
    - m[2][0] * m[1][3] * m[3][2]
    - m[3][0] * m[1][2] * m[2][3]
    + m[3][0] * m[1][3] * m[2][2]

\* result[2][0] of operator-(), before the division by the determinant.
Cofactor20(m) ==
      m[1][0] * m[2][1] * m[3][3]
    - m[1][0] * m[2][3] * m[3][1]
    - m[2][0] * m[1][1] * m[3][3]
    + m[2][0] * m[1][3] * m[3][1]
    + m[3][0] * m[1][1] * m[2][3]
    - m[3][0] * m[1][3] * m[2][1]

\* result[3][0] of operator-(), before the division by the determinant.
Cofactor30(m) ==
      (-1) * m[1][0] * m[2][1] * m[3][2]
    + m[1][0] * m[2][2] * m[3][1]
    + m[2][0] * m[1][1] * m[3][2]
    - m[2][0] * m[1][2] * m[3][1]
    - m[3][0] * m[1][1] * m[2][2]
    + m[3][0] * m[1][2] * m[2][1]

\* result[0][1] of operator-(), before the division by the determinant.
Cofactor01(m) ==
      (-1) * m[0][1] * m[2][2] * m[3][3]
    + m[0][1] * m[2][3] * m[3][2]
    + m[2][1] * m[0][2] * m[3][3]
    - m[2][1] * m[0][3] * m[3][2]
    - m[3][1] * m[0][2] * m[2][3]
    + m[3][1] * m[0][3] * m[2][2]

\* result[1][1] of operator-(), before the division by the determinant.
Cofactor11(m) ==
      m[0][0] * m[2][2] * m[3][3]
    - m[0][0] * m[2][3] * m[3][2]
    - m[2][0] * m[0][2] * m[3][3]
    + m[2][0] * m[0][3] * m[3][2]
    + m[3][0] * m[0][2] * m[2][3]
    - m[3][0] * m[0][3] * m[2][2]

\* Cofactor21 with the sign of its third term flipped.
Cofactor21SignSlip(m) ==
      (-1) * m[0][0] * m[2][1] * m[3][3]
    + m[0][0] * m[2][3] * m[3][1]
    - m[2][0] * m[0][1] * m[3][3]
    - m[2][0] * m[0][3] * m[3][1]
    - m[3][0] * m[0][1] * m[2][3]
    + m[3][0] * m[0][3] * m[2][1]

\* result[2][1] of operator-(), before the division by the determinant.
Cofactor21(m) ==
      (-1) * m[0][0] * m[2][1] * m[3][3]
    + m[0][0] * m[2][3] * m[3][1]
    + m[2][0] * m[0][1] * m[3][3]
    - m[2][0] * m[0][3] * m[3][1]
    - m[3][0] * m[0][1] * m[2][3]
    + m[3][0] * m[0][3] * m[2][1]

\* result[3][1] of operator-(), before the division by the determinant.
Cofactor31(m) ==
      m[0][0] * m[2][1] * m[3][2]
    - m[0][0] * m[2][2] * m[3][1]
    - m[2][0] * m[0][1] * m[3][2]
    + m[2][0] * m[0][2] * m[3][1]
    + m[3][0] * m[0][1] * m[2][2]
    - m[3][0] * m[0][2] * m[2][1]

\* result[0][2] of operator-(), before the division by the determinant.
Cofactor02(m) ==
      m[0][1] * m[1][2] * m[3][3]
    - m[0][1] * m[1][3] * m[3][2]
    - m[1][1] * m[0][2] * m[3][3]
    + m[1][1] * m[0][3] * m[3][2]
    + m[3][1] * m[0][2] * m[1][3]
    - m[3][1] * m[0][3] * m[1][2]

\* result[1][2] of operator-(), before the division by the determinant.
Cofactor12(m) ==
      (-1) * m[0][0] * m[1][2] * m[3][3]
    + m[0][0] * m[1][3] * m[3][2]
    + m[1][0] * m[0][2] * m[3][3]
    - m[1][0] * m[0][3] * m[3][2]
    - m[3][0] * m[0][2] * m[1][3]
    + m[3][0] * m[0][3] * m[1][2]

\* result[2][2] of operator-(), before the division by the determinant.
Cofactor22(m) ==
      m[0][0] * m[1][1] * m[3][3]
    - m[0][0] * m[1][3] * m[3][1]
    - m[1][0] * m[0][1] * m[3][3]
    + m[1][0] * m[0][3] * m[3][1]
    + m[3][0] * m[0][1] * m[1][3]
    - m[3][0] * m[0][3] * m[1][1]

\* result[3][2] of operator-(), before the division by the determinant.
Cofactor32(m) ==
      (-1) * m[0][0] * m[1][1] * m[3][2]
    + m[0][0] * m[1][2] * m[3][1]
    + m[1][0] * m[0][1] * m[3][2]
    - m[1][0] * m[0][2] * m[3][1]
    - m[3][0] * m[0][1] * m[1][2]
    + m[3][0] * m[0][2] * m[1][1]

\* result[0][3] of operator-(), before the division by the determinant.
Cofactor03(m) ==
      (-1) * m[0][1] * m[1][2] * m[2][3]
    + m[0][1] * m[1][3] * m[2][2]
    + m[1][1] * m[0][2] * m[2][3]
    - m[1][1] * m[0][3] * m[2][2]
    - m[2][1] * m[0][2] * m[1][3]
    + m[2][1] * m[0][3] * m[1][2]

\* result[1][3] of operator-(), before the division by the determinant.
Cofactor13(m) ==
      m[0][0] * m[1][2] * m[2][3]
    - m[0][0] * m[1][3] * m[2][2]
    - m[1][0] * m[0][2] * m[2][3]
    + m[1][0] * m[0][3] * m[2][2]
    + m[2][0] * m[0][2] * m[1][3]
    - m[2][0] * m[0][3] * m[1][2]

\* result[2][3] of operator-(), before the division by the determinant.
Cofactor23(m) ==
      (-1) * m[0][0] * m[1][1] * m[2][3]
    + m[0][0] * m[1][3] * m[2][1]
    + m[1][0] * m[0][1] * m[2][3]
    - m[1][0] * m[0][3] * m[2][1]
    - m[2][0] * m[0][1] * m[1][3]
    + m[2][0] * m[0][3] * m[1][1]

\* result[3][3] of operator-(), before the division by the determinant.
Cofactor33(m) ==
      m[0][0] * m[1][1] * m[2][2]
    - m[0][0] * m[1][2] * m[2][1]
    - m[1][0] * m[0][1] * m[2][2]
    + m[1][0] * m[0][2] * m[2][1]
    + m[2][0] * m[0][1] * m[1][2]
    - m[2][0] * m[0][2] * m[1][1]

\* `result` after the sixteen cofactor assignments.
Cofactors(m) ==
    Matrix4New(Cofactor00(m), Cofactor01(m), Cofactor02(m), Cofactor03(m),
               Cofactor10(m), Cofactor11(m), Cofactor12(m), Cofactor13(m),
               Cofactor20(m), Cofactor21(m), Cofactor22(m), Cofactor23(m),
               Cofactor30(m), Cofactor31(m), Cofactor32(m), Cofactor33(m))

\* det = m[0][0]*result[0][0] + m[0][1]*result[1][0] + ... , computed in int and
\* stored in a double.
NegDet(m, result) ==
    m[0][0] * result[0][0] + m[0][1] * result[1][0]
  + m[0][2] * result[2][0] + m[0][3] * result[3][0]

\* Quotient truncated toward zero: the conversion of a double to int.
TruncDiv(a, d) == Sgn(a) * Sgn(d) * (Abs(a) \div Abs(d))

RECURSIVE IsPowerOfTwo(_)
IsPowerOfTwo(n) ==
    IF n = 1 THEN TRUE
    ELSE IF n < 1 \/ n % 2 = 1 THEN FALSE
    ELSE IsPowerOfTwo(n \div 2)

(***************************************************************************)
(* result[i][j] *= det, with det = 1.0 / det a double and result[i][j] an  *)
(* int: the product is formed in floating point and truncated to int.      *)
(* When |det| is a power of two, 1.0 / det and the product are exact.      *)
(* Otherwise 1.0 / det is rounded; a product whose exact value a / det is  *)
(* no integer still truncates to the truncated quotient (the rounding      *)
(* error is far smaller than 1 / |det|), but a product whose exact value   *)
(* is a non-zero integer q may come out as q or a little closer to zero    *)
(* than q, depending on the rounding direction of 1.0 / det and on the     *)
(* floating-point evaluation mode of the build, and then truncates to the  *)
(* integer next to q toward zero: `short` says that it does.               *)
(***************************************************************************)
ScaleByReciprocal(a, det, short) ==
    IF short THEN TruncDiv(a, det) - Sgn(TruncDiv(a, det)) ELSE TruncDiv(a, det)

\* The entries of `result` whose scaled value may come out short.
MayComeShort(result, det) ==
    IF det = 0 \/ IsPowerOfTwo(Abs(det)) THEN {}
    ELSE {ij \in Idx \X Idx :
             result[ij[1]][ij[2]] # 0 /\ result[ij[1]][ij[2]] % Abs(det) = 0}

\* operator-() const, for one choice of the entries that come out short.
OpNeg(m, below) ==
    LET result == Cofactors(m)
        det    == NegDet(m, result)
    IN  IF det = 0 THEN Matrix4
        ELSE [i \in Idx |-> [j \in Idx |->
                 ScaleByReciprocal(result[i][j], det, <<i, j>> \in below)]]

\* Every matrix operator-() can return for m.
OpNegOutcomes(m) ==
    {OpNeg(m, below) : below \in SUBSET MayComeShort(Cofactors(m), NegDet(m, Cofactors(m)))}

(***************************************************************************)
(* Button                                                                  *)
(***************************************************************************)

\* Button::state.  "OTHER" stands for any unsigned short that is none of the
\* four enumerators, which setState accepts.
ButtonStates == {"IDLE", "HOVER", "ACTIVE", "LOCKED"}
StateValues == ButtonStates \cup {"OTHER"}

\* The fill colours update sets, and the shape's colour before any update.
ColorInitial == <<255, 255, 255>>
ColorIdle == <<200, 200, 200>>
ColorHover == <<100, 100, 100>>
ColorActive == <<100, 200, 100>>

\* m_shape.getGlobalBounds().contains(x, y): the left and top edges are inside,
\* the right and bottom edges are not.
contains(rect, x, y) ==
    /\ x >= rect.left /\ x < rect.left + rect.width
    /\ y >= rect.top  /\ y < rect.top + rect.height

\* The state update leaves for a button in state s: update without its
\* check of LOCKED.
updateStateNoLock(s, rect, pos, pressed) ==
    IF contains(rect, pos.x, pos.y)
    THEN IF pressed THEN "ACTIVE" ELSE "HOVER"
    ELSE "IDLE"

\* Button::update: the state it leaves for a button in state s.
updateState(s, rect, pos, pressed) ==
    IF s # "LOCKED"
    THEN IF contains(rect, pos.x, pos.y)
         THEN IF pressed THEN "ACTIVE" ELSE "HOVER"
         ELSE "IDLE"
    ELSE s

\* Button::update: the fill colour it leaves, chosen from the new state.
updateColor(s, new, color) ==
    IF s # "LOCKED"
    THEN IF new = "IDLE" THEN ColorIdle
         ELSE IF new = "HOVER" THEN ColorHover
         ELSE ColorActive
    ELSE color

\* Button::isPressed() const
isPressed(s) == (s = "ACTIVE")

\* Button::getState() const
getState(s) == s

(***************************************************************************)
(* Inputs                                                                  *)
(***************************************************************************)

\* Vectors with every coordinate in -MaxVal..MaxVal.
Vectors == {Vector3(x, y, z) : x \in Vals, y \in Vals, z \in Vals}

\* Matrices built by the default constructor followed by at most one write
\* through operator[]: m[i][j] = a.
OperandMatrices == {[Matrix4 EXCEPT ![i][j] = a] : i \in Idx, j \in Idx, a \in Vals}

\* The rows a matrix of InverseInputs may have at index i: row i of the identity
\* with at most one element overwritten.
RowChoices(i) == {[Matrix4[i] EXCEPT ![j] = a] : j \in Idx, a \in Vals}

\* Matrices built by the default constructor followed by at most one write
\* through operator[] in each row.
InverseInputs ==
    {[i \in Idx |-> <<r0, r1, r2, r3>>[i + 1]] :
        r0 \in RowChoices(0), r1 \in RowChoices(1),
        r2 \in RowChoices(2), r3 \in RowChoices(3)}

ZeroVector == Vector3(0, 0, 0)
NoFlags == <<FALSE, FALSE, FALSE>>

\* The Button part of a state in which no Button call has been made.
ButtonConstructed(w, h) ==
    /\ m_state = "IDLE"
    /\ fillColor = ColorInitial
    /\ m_shape = [left |-> 1, top |-> 1, width |-> w, height |-> h]
    /\ mousePos = [x |-> 0, y |-> 0]
    /\ leftPressed = FALSE
    /\ prevState = "IDLE"

\* The matrix part of a state in which the object is m and no call has been made.
MatrixConstructed(m) ==
    /\ M = m
    /\ R = Matrix4
    /\ V = ZeroVector
    /\ flags = NoFlags
    /\ pre = m
    /\ mres = Matrix4
    /\ mres2 = Matrix4
    /\ vres = ZeroVector
    /\ vres2 = ZeroVector

(***************************************************************************)
(* Spec: one call expression on a constructed matrix                       *)
(***************************************************************************)

Init ==
    /\ \E m \in OperandMatrices : MatrixConstructed(m)
    /\ ButtonConstructed(1, 1)
    /\ last = "constructed"

\* Matrix4<int>()
Construct ==
    /\ last = "constructed"
    /\ mres' = Matrix4
    /\ last' = "Matrix4()"
    /\ UNCHANGED <<M, R, V, flags, pre, mres2, vres, vres2>>
    /\ UNCHANGED buttonVars

\* M * r
Multiply ==
    /\ last = "constructed"
    /\ \E r \in OperandMatrices :
          /\ R' = r
          /\ mres' = OpMul(M, r)
    /\ pre' = M
    /\ last' = "M*R"
    /\ UNCHANGED <<M, V, flags, mres2, vres, vres2>>
    /\ UNCHANGED buttonVars

\* Matrix4() * M and M * Matrix4()
MultiplyByDefault ==
    /\ last = "constructed"
    /\ mres' = OpMul(Matrix4, M)
    /\ mres2' = OpMul(M, Matrix4)
    /\ pre' = M
    /\ last' = "Matrix4()*M"
    /\ UNCHANGED <<M, R, V, flags, vres, vres2>>
    /\ UNCHANGED buttonVars

\* M * v
MultiplyVector ==
    /\ last = "constructed"
    /\ \E v \in Vectors :
          /\ V' = v
          /\ vres' = OpMulVec(M, v)
    /\ pre' = M
    /\ last' = "M*V"
    /\ UNCHANGED <<M, R, flags, mres, mres2, vres2>>
    /\ UNCHANGED buttonVars

\* (M * r) * v and M * (r * v)
Associate ==
    /\ last = "constructed"
    /\ \E r \in OperandMatrices, v \in Vectors :
          /\ R' = r
          /\ V' = v
          /\ vres' = OpMulVec(OpMul(M, r), v)
          /\ vres2' = OpMulVec(M, OpMulVec(r, v))
    /\ pre' = M
    /\ last' = "(M*R)*V"
    /\ UNCHANGED <<M, flags, mres, mres2>>
    /\ UNCHANGED buttonVars

\* M.translate(t)
Translate ==
    /\ last = "constructed"
    /\ \E t \in Vectors :
          /\ V' = t
          /\ M' = translate(M, t)
    /\ pre' = M
    /\ last' = "translate"
    /\ UNCHANGED <<R, flags, mres, mres2, vres, vres2>>
    /\ UNCHANGED buttonVars

\* M.scale(s)
Scale ==
    /\ last = "constructed"
    /\ \E s \in Vectors :
          /\ V' = s
          /\ M' = scale(M, s)
    /\ pre' = M
    /\ last' = "scale"
    /\ UNCHANGED <<R, flags, mres, mres2, vres, vres2>>
    /\ UNCHANGED buttonVars

\* M.mirror(x, y, z)
Mirror ==
    /\ last = "constructed"
    /\ \E x \in BOOLEAN, y \in BOOLEAN, z \in BOOLEAN :
          /\ flags' = <<x, y, z>>
          /\ M' = mirror(M, x, y, z)
    /\ pre' = M
    /\ last' = "mirror"
    /\ UNCHANGED <<R, V, mres, mres2, vres, vres2>>
    /\ UNCHANGED buttonVars

\* M.mirror(x, y, z).mirror(x, y, z)
MirrorTwice ==
    /\ last = "constructed"
    /\ \E x \in BOOLEAN, y \in BOOLEAN, z \in BOOLEAN :
          /\ flags' = <<x, y, z>>
          /\ M' = mirror(mirror(M, x, y, z), x, y, z)
    /\ pre' = M
    /\ last' = "mirror.mirror"
    /\ UNCHANGED <<R, V, mres, mres2, vres, vres2>>
    /\ UNCHANGED buttonVars

\* M.toPosition()
ToPosition ==
    /\ last = "constructed"
    /\ vres' = toPosition(M)
    /\ pre' = M
    /\ last' = "toPosition"
    /\ UNCHANGED <<M, R, V, flags, mres, mres2, vres2>>
    /\ UNCHANGED buttonVars

Next ==
    \/ Construct
    \/ Multiply
    \/ MultiplyByDefault
    \/ MultiplyVector
    \/ Associate
    \/ Translate
    \/ Scale
    \/ Mirror
    \/ MirrorTwice
    \/ ToPosition

Spec == Init /\ [][Next]_vars

(***************************************************************************)
(* SpecInverse: operator-() and the products with its result               *)
(***************************************************************************)

InitInverse ==
    /\ \E m \in InverseInputs : MatrixConstructed(m)
    /\ ButtonConstructed(1, 1)
    /\ last = "constructed"

\* -M
Negate ==
    /\ last = "constructed"
    /\ mres' \in OpNegOutcomes(M)
    /\ pre' = M
    /\ last' = "-M"
    /\ UNCHANGED <<M, R, V, flags, mres2, vres, vres2>>
    /\ UNCHANGED buttonVars

\* M * (-M) and (-M) * M
MultiplyByInverse ==
    /\ last = "constructed"
    /\ \E inv \in OpNegOutcomes(M) :
          /\ R' = inv
          /\ mres' = OpMul(M, inv)
          /\ mres2' = OpMul(inv, M)
    /\ pre' = M
    /\ last' = "M*(-M)"
    /\ UNCHANGED <<M, V, flags, vres, vres2>>
    /\ UNCHANGED buttonVars

NextInverse ==
    \/ Negate
    \/ MultiplyByInverse

SpecInverse == InitInverse /\ [][NextInverse]_vars

(***************************************************************************)
(* SpecButton: a Button under mouse input                                  *)
(***************************************************************************)

InitButton ==
    /\ MatrixConstructed(Matrix4)
    /\ \E w \in 1..MaxSize, h \in 1..MaxSize : ButtonConstructed(w, h)
    /\ last = "constructed"

\* The mouse moves.
MouseMove ==
    /\ \E x \in 0..MaxCoord, y \in 0..MaxCoord : mousePos' = [x |-> x, y |-> y]
    /\ prevState' = m_state
    /\ last' = "input"
    /\ UNCHANGED <<m_state, fillColor, m_shape, leftPressed>>
    /\ UNCHANGED matrixVars

\* The left mouse button goes down or up.
MouseButton ==
    /\ leftPressed' = ~leftPressed
    /\ prevState' = m_state
    /\ last' = "input"
    /\ UNCHANGED <<m_state, fillColor, m_shape, mousePos>>
    /\ UNCHANGED matrixVars

\* Button::update(mousePos, event)
Update ==
    /\ m_state' = updateState(m_state, m_shape, mousePos, leftPressed)
    /\ fillColor' = updateColor(m_state, m_state', fillColor)
    /\ prevState' = m_state
    /\ last' = "update"
    /\ UNCHANGED <<m_shape, mousePos, leftPressed>>
    /\ UNCHANGED matrixVars

\* Button::lockButton()
LockButton ==
    /\ m_state' = "LOCKED"
    /\ prevState' = m_state
    /\ last' = "lockButton"
    /\ UNCHANGED <<fillColor, m_shape, mousePos, leftPressed>>
    /\ UNCHANGED matrixVars

\* Button::unlockButton()
UnlockButton ==
    /\ m_state' = "IDLE"
    /\ prevState' = m_state
    /\ last' = "unlockButton"
    /\ UNCHANGED <<fillColor, m_shape, mousePos, leftPressed>>
    /\ UNCHANGED matrixVars

\* Button::setState(new_state)
SetState ==
    /\ \E new_state \in StateValues : m_state' = new_state
    /\ prevState' = m_state
    /\ last' = "setState"
    /\ UNCHANGED <<fillColor, m_shape, mousePos, leftPressed>>
    /\ UNCHANGED matrixVars

NextButton ==
    \/ MouseMove
    \/ MouseButton
    \/ Update
    \/ LockButton
    \/ UnlockButton
    \/ SetState

SpecButton == InitButton /\ [][NextButton]_vars

(***************************************************************************)
(* Properties                                                              *)
(***************************************************************************)

\* The identity matrix: 1 on the diagonal, 0 elsewhere.
IdentityMatrix == [i \in Idx |-> [j \in Idx |-> IF i = j THEN 1 ELSE 0]]

\* The permutations of 0..3, and the sign of one.
Perms4 == {p \in [Idx -> Idx] : \A i, j \in Idx : i # j => p[i] # p[j]}
Inversions(p) == Cardinality({ij \in Idx \X Idx : ij[1] < ij[2] /\ p[ij[1]] > p[ij[2]]})
Sign(p) == IF Inversions(p) % 2 = 0 THEN 1 ELSE -1

\* The determinant by the Leibniz formula: the sum over the permutations p of
\* sign(p) * m[0][p[0]] * m[1][p[1]] * m[2][p[2]] * m[3][p[3]].
RECURSIVE LeibnizSum(_, _)
LeibnizSum(m, ps) ==
    IF ps = {} THEN 0
    ELSE LET p == CHOOSE q \in ps : TRUE
         IN  Sign(p) * m[0][p[0]] * m[1][p[1]] * m[2][p[2]] * m[3][p[3]]
             + LeibnizSum(m, ps \ {p})
Determinant(m) == LeibnizSum(m, Perms4)

\* The sum over k in 0..n of a[i][k] * b[k][j].
RECURSIVE RowByColumn(_, _, _, _, _)
RowByColumn(a, b, i, j, n) ==
    IF n < 0 THEN 0 ELSE a[i][n] * b[n][j] + RowByColumn(a, b, i, j, n - 1)

\* The last row of m is (0, 0, 0, 1).
LastRowAffine(m) == m[3] = IdentityMatrix[3]

\* T(t): the identity matrix with t in the first three rows of the last column.
TranslationMatrix(t) ==
    [IdentityMatrix EXCEPT ![0][3] = t.x, ![1][3] = t.y, ![2][3] = t.z]

\* C1 as claimed: for every matrix M with a non-zero determinant, M * (-M) and
\* (-M) * M are both the identity matrix.
C1_InverseOfRegular ==
    (last = "M*(-M)" /\ Determinant(M) # 0)
        => (mres = IdentityMatrix /\ mres2 = IdentityMatrix)

\* C1 as amended: for every matrix M whose determinant is 1 or -1, M * (-M) and
\* (-M) * M are both the identity matrix.
C1_InverseOfUnimodular ==
    (last = "M*(-M)" /\ Determinant(M) \in {1, -1})
        => (mres = IdentityMatrix /\ mres2 = IdentityMatrix)

\* M * (-M) has been formed for a matrix of determinant -1 with an element off
\* the diagonal, whose inverse is neither M nor the identity.
C1_Witness ==
    /\ last = "M*(-M)"
    /\ Determinant(M) = -1
    /\ \E i, j \in Idx : i # j /\ M[i][j] # 0
    /\ R # M
    /\ R # IdentityMatrix

\* C2: operator* returns the row-by-column product, (A*B)[i][j] being the sum
\* over k of A[i][k] * B[k][j], and leaves the matrix it is called on unchanged.
C2_ProductIsRowByColumn ==
    last = "M*R"
        => /\ \A i, j \in Idx : mres[i][j] = RowByColumn(pre, R, i, j, 3)
           /\ M = pre

\* A product of two matrices, neither the identity, that is neither factor.
C2_Witness ==
    /\ last = "M*R"
    /\ M # IdentityMatrix
    /\ R # IdentityMatrix
    /\ mres # M
    /\ mres # R

\* C3: a default-constructed matrix is the identity matrix, and multiplying a
\* matrix M by it on either side gives M.
C3_DefaultIsNeutral ==
    /\ last = "Matrix4()" => mres = IdentityMatrix
    /\ last = "Matrix4()*M" => (mres = M /\ mres2 = M)

\* Both products with the default matrix have been formed for a matrix with a
\* non-zero element in its last row, off the diagonal.
C3_Witness ==
    /\ last = "Matrix4()*M"
    /\ \E j \in 0..2 : M[3][j] # 0

\* C4: after translate(t), toPosition() is the previous toPosition() plus t in
\* each component, and the elements of columns 0..2 and of the last row are
\* unchanged.
C4_TranslateMovesPosition ==
    last = "translate"
        => /\ toPosition(M) = Vector3(toPosition(pre).x + V.x,
                                        toPosition(pre).y + V.y,
                                        toPosition(pre).z + V.z)
           /\ \A i, j \in Idx : (j # 3 \/ i = 3) => M[i][j] = pre[i][j]

\* A translation with three non-zero components of a matrix that is not the
\* identity.
C4_Witness ==
    /\ last = "translate"
    /\ V.x # 0 /\ V.y # 0 /\ V.z # 0
    /\ pre # IdentityMatrix

\* C5: M * v is the first three components of M applied to (x, y, z, 1), and for
\* matrices A and B whose last row is (0, 0, 0, 1), (A * B) * v = A * (B * v).
C5_VectorProductComposes ==
    /\ last = "M*V"
          => vres = Vector3(M[0][0] * V.x + M[0][1] * V.y + M[0][2] * V.z + M[0][3],
                            M[1][0] * V.x + M[1][1] * V.y + M[1][2] * V.z + M[1][3],
                            M[2][0] * V.x + M[2][1] * V.y + M[2][2] * V.z + M[2][3])
    /\ (last = "(M*R)*V" /\ LastRowAffine(M) /\ LastRowAffine(R))
          => vres = vres2

\* Both sides have been formed for two matrices with last row (0, 0, 0, 1), the
\* right one a translation, and a vector the product moves.
C5_Witness ==
    /\ last = "(M*R)*V"
    /\ LastRowAffine(M) /\ LastRowAffine(R)
    /\ M # IdentityMatrix
    /\ toPosition(R) # ZeroVector
    /\ V # ZeroVector
    /\ vres # V

\* C6: mirror(x, y, z) negates column 0, 1, 2 of the matrix for each axis passed
\* as true and leaves every other element unchanged; mirror(false, false, false)
\* leaves the matrix unchanged, and the same mirror applied twice restores it.
C6_MirrorNegatesColumns ==
    /\ last = "mirror"
          => /\ \A i, j \in Idx :
                   M[i][j] = IF j < 3 /\ flags[j + 1] THEN -pre[i][j] ELSE pre[i][j]
             /\ flags = NoFlags => M = pre
    /\ last = "mirror.mirror" => M = pre

\* A mirror in the x and z axes that changes the matrix.
C6_Witness ==
    /\ last = "mirror"
    /\ flags = <<TRUE, FALSE, TRUE>>
    /\ M # pre
    /\ pre # IdentityMatrix

\* C7: update leaves a LOCKED button LOCKED, only unlockButton or setState leaves
\* LOCKED, update on any other state sets ACTIVE when the mouse is inside the
\* shape with the left button pressed, HOVER when inside and not pressed and
\* IDLE when outside, whatever the state was, and isPressed() holds exactly in
\* state ACTIVE.
C7_UpdateFollowsInput ==
    /\ (last = "update" /\ prevState = "LOCKED") => m_state = "LOCKED"
    /\ (prevState = "LOCKED" /\ m_state # "LOCKED")
          => last \in {"unlockButton", "setState"}
    /\ (last = "update" /\ prevState # "LOCKED")
          => /\ m_state = IF contains(m_shape, mousePos.x, mousePos.y)
                          THEN IF leftPressed THEN "ACTIVE" ELSE "HOVER"
                          ELSE "IDLE"
             /\ isPressed(m_state)
                   <=> (contains(m_shape, mousePos.x, mousePos.y) /\ leftPressed)
    /\ isPressed(m_state) <=> m_state = "ACTIVE"

\* An update of a locked button with the mouse inside and the left button down.
C7_Witness ==
    /\ last = "update"
    /\ prevState = "LOCKED"
    /\ contains(m_shape, mousePos.x, mousePos.y)
    /\ leftPressed

\* C8: translate(t) right-multiplies the matrix by the translation matrix, as
\* scale and mirror do with theirs: M.translate(t) = M * T(t).
C8_TranslateIsRightMultiplication ==
    last = "translate" => M = OpMul(pre, TranslationMatrix(V))

====
